---- MODULE Spec2Model ----
(***************************************************************************)
(* The size-bounded image optimizers of InstaGen as one state machine:     *)
(*   optimize_for_retail        backend/services/image_processing.py       *)
(*   optimize_export            backend/services/image_processing.py       *)
(*   recursive_optimize_export  MODULE_C_ImageOptimizer.py                 *)
(* Init fixes a call's inputs (the image, the arguments and the codec's    *)
(* size function for that image); every loop iteration of the called       *)
(* function is one step.  Spec is one call; RepeatSpec lets the caller     *)
(* make the same call a second time; ConcSpec runs two calls of            *)
(* recursive_optimize_export on one file_path at the same time;            *)
(* FallbackSpec is one call of optimize_with_format_fallback.              *)
(***************************************************************************)
EXTENDS Integers, Sequences, FiniteSets

VARIABLES
    variant,         \* which function is called
    fileExists,      \* recursive_optimize_export: os.path.exists(file_path)
    mode,            \* PIL mode of the caller's image
    srcW, srcH,      \* pixel size of the caller's image
    inputSize,       \* len(image_data) / os.path.getsize(file_path) at call time
    target_size_kb,  \* optimize_export argument
    max_iterations,  \* optimize_export argument
    underQ, exactQ,  \* the codec's size function for this image (see Size)
    smallUnder,
    drift,           \* bytes a re-encode of an already encoded image gains
    source,          \* the caller's image as it is now: the file at file_path,
                     \* the image_data bytes, the PIL image object
    callNo,          \* 1, or 2 once the caller has repeated the call
    first,           \* where the first call ended, once it is repeated
    other,           \* the second, simultaneous call of ConcSpec
    ext,             \* the extension of file_path
    webpUnderQ,      \* the WebP size function of the image (see WebpEncode)
    fb,              \* the call of optimize_with_format_fallback, when there is one
    webp,            \* the file at webp_path
    pc,              \* "start", "loop", "exit", "done"
    imgMode,         \* mode of the working image
    imgGen,          \* how many JPEG encodes the working image's pixels went through
    width, height,   \* size of the working image
    quality,
    iteration,
    current_size,    \* file_size_kb*1024 / current_size / len(output_buffer)
    log,             \* every encode attempt so far, in order
    result,          \* "pending", "returned", "returned_None", "raised"
    ret              \* what the caller receives

inputs == <<variant, fileExists, mode, srcW, srcH, inputSize, target_size_kb,
            max_iterations, underQ, exactQ, smallUnder, drift, ext,
            webpUnderQ>>
work == <<imgMode, imgGen, width, height, quality, iteration, current_size>>
caller == <<callNo, first, other, fb, webp>>
vars == <<inputs, source, caller, pc, work, log, result, ret>>

----------------------------------------------------------------------------
(* Program constants *)

KB == 1024

\* MODULE_C_ImageOptimizer.py
MAX_FILE_SIZE_KB == 500
QUALITY_START == 95
QUALITY_MIN == 65
QUALITY_STEP == 5
RECURSIVE_MAX_ITERATIONS == 20

\* optimize_for_retail
RETAIL_QUALITY_START == 95
RETAIL_TARGET_KB == 500
RETAIL_MAX_ITERATIONS == 20
RETAIL_QUALITY_STEP == 5
RETAIL_QUALITY_FLOOR == 10

\* optimize_export
EXPORT_QUALITY_START == 85
EXPORT_QUALITY_STEP == 5
EXPORT_QUALITY_FLOOR == 10
EXPORT_MIN_DIMENSION == 100
EXPORT_SCALE_PERCENT == 95
EXPORT_DEFAULT_TARGET_KB == 500
EXPORT_DEFAULT_MAX_ITERATIONS == 10

----------------------------------------------------------------------------
(* Bounds of the explored inputs *)

\* the largest max_iterations argument explored
MaxIterationsArg == 22

\* the side of the source image that is shorter than EXPORT_MIN_DIMENSION
ShortSide == 90

MaxIterationsChoices == {0, 1, EXPORT_DEFAULT_MAX_ITERATIONS, MaxIterationsArg}
TargetKbChoices == {EXPORT_DEFAULT_TARGET_KB}
\* a source with two different sides over EXPORT_MIN_DIMENSION, and one with a
\* short side
SourceSizes == {<<120, 150>>, <<ShortSide, 300>>}
Modes == {"RGB", "RGBA", "LA", "P", "L"}

\* JPEG quality settings the codec is defined on: 5, 10, ..., 95
QualityLevels == {5 * k : k \in 1..19}

\* byte sizes an encoding or an input container can have, around the 500 KB budget
BudgetBytes == MAX_FILE_SIZE_KB * KB
SizeUnder == BudgetBytes - 1
SizeExact == BudgetBytes
SizeOver == BudgetBytes + 1
ContainerSizes == {SizeUnder, SizeExact, SizeOver}

----------------------------------------------------------------------------
(* The codec (PIL) *)

\* Modes Image.save(format="JPEG") accepts; any other mode raises OSError.
JpegWritable(m) == m \in {"RGB", "L"}

HasAlpha(m) == m \in {"RGBA", "LA"}

\* len of the JPEG that image.save(..., quality=q, optimize=True) produces for
\* this call's image at w x h pixels.  The image fixes the function: below
\* quality underQ the encoding is under 500 KB, at exactQ it is exactly 500 KB,
\* and when smallUnder it is under 500 KB once both sides are at MIN_DIMENSION.
Size(q, w, h) ==
    IF smallUnder /\ w <= EXPORT_MIN_DIMENSION /\ h <= EXPORT_MIN_DIMENSION
    THEN SizeUnder
    ELSE IF q = exactQ THEN SizeExact
    ELSE IF q <= underQ THEN SizeUnder
    ELSE SizeOver

\* One encode attempt: image.save at quality q on an image of mode m, w x h,
\* whose pixels went through g encodes before.  JPEG is lossy: the pixels
\* decoded from an encoded file are another image, and encoding them yields
\* drift bytes more per generation than encoding the original.
EncodeGen(q, w, h, m, g) ==
    [q |-> q, w |-> w, h |-> h, mode |-> m, ok |-> JpegWritable(m),
     size |-> IF JpegWritable(m) THEN Size(q, w, h) + drift * g ELSE 0,
     gen |-> g + 1]

\* One encode attempt of this call: image.save on the working image.
Encode(q, w, h, m) == EncodeGen(q, w, h, m, imgGen)

\* The caller's own bytes / file, as a value of the same shape.
InputBytes == [q |-> 0, w |-> srcW, h |-> srcH, mode |-> mode, ok |-> TRUE,
               size |-> inputSize, gen |-> 0]

NoValue == [q |-> 0, w |-> 0, h |-> 0, mode |-> "none", ok |-> FALSE, size |-> 0,
            gen |-> 0]

\* file_path after Image.save opened it for writing and the encoder raised:
\* an empty file
TruncatedFile == [q |-> 0, w |-> 0, h |-> 0, mode |-> "none", ok |-> FALSE,
                  size |-> 0, gen |-> 0]

----------------------------------------------------------------------------
(* optimize_for_retail(image) *)

\* lines 338-346: every non-RGB image becomes RGB (RGBA pasted on white,
\* anything else through convert("RGB"))
RetailFlatten(m) == IF m # "RGB" THEN "RGB" ELSE m

RetailStart ==
    /\ variant = "retail"
    /\ pc = "start"
    /\ imgMode' = RetailFlatten(source.mode)
    /\ quality' = RETAIL_QUALITY_START
    /\ iteration' = 0
    /\ pc' = "loop"
    /\ UNCHANGED <<inputs, source, caller, imgGen, width, height, current_size,
                   log, result, ret>>

\* a budget test that never succeeds
RetailNeverMeetsBudget(size) == FALSE

\* the budget test of line 367
RetailMeetsBudget(size) == size < RETAIL_TARGET_KB * KB

\* a loop that never gives up on quality
RetailGivesUpNever(q) == FALSE

\* a give-up test that lets the quality go down to 0
RetailGivesUpBelowZero(q) == q < 0

\* the give-up test of line 375, on the decremented quality
RetailGivesUp(q) == q < RETAIL_QUALITY_FLOOR

\* failing at the floor, as the docstring of optimize_for_retail announces
RetailFloorRaises == "raised"

\* what the loop does when quality has dropped below the floor (line 378)
RetailFloorOutcome == "returned"

\* one pass of the while loop (lines 353-378), or the raise after it (381-384)
RetailIter ==
    /\ variant = "retail"
    /\ pc = "loop"
    /\ IF iteration < RETAIL_MAX_ITERATIONS
       THEN LET e == Encode(quality, width, height, imgMode)
            IN /\ iteration' = iteration + 1
               /\ log' = Append(log, e)
               /\ current_size' = e.size
               /\ IF RetailMeetsBudget(e.size)
                  THEN /\ result' = "returned"
                       /\ ret' = e
                       /\ pc' = "done"
                       /\ UNCHANGED quality
                  ELSE /\ quality' = quality - RETAIL_QUALITY_STEP
                       /\ IF RetailGivesUp(quality')
                          THEN /\ result' = RetailFloorOutcome
                               /\ ret' = IF RetailFloorOutcome = "returned"
                                         THEN e ELSE NoValue
                               /\ pc' = "done"
                          ELSE /\ pc' = "loop"
                               /\ UNCHANGED <<result, ret>>
       ELSE /\ result' = "raised"
            /\ ret' = NoValue
            /\ pc' = "done"
            /\ UNCHANGED <<quality, iteration, current_size, log>>
    /\ UNCHANGED <<inputs, source, caller, imgMode, imgGen, width, height>>

----------------------------------------------------------------------------
(* optimize_export(image_data, target_size_kb, max_iterations) *)

\* lines 414-421: RGBA is pasted on white, LA and P go through convert("RGB"),
\* every other mode is left as it is
ExportFlatten(m) == IF m \in {"RGBA", "LA", "P"} THEN "RGB" ELSE m

ExportStart ==
    /\ variant = "export"
    /\ pc = "start"
    /\ imgMode' = ExportFlatten(source.mode)
    /\ quality' = EXPORT_QUALITY_START
    /\ iteration' = 0
    /\ current_size' = source.size
    /\ ret' = source                \* optimized_data = image_data
    /\ pc' = "loop"
    /\ UNCHANGED <<inputs, source, caller, imgGen, width, height, log, result>>

\* the loop condition without its iteration cap
ExportContinuesUncapped(size, it) ==
    size > target_size_kb * KB

\* a loop that stops one iteration before its cap
ExportContinuesOneShort(size, it) ==
    size > target_size_kb * KB /\ it + 1 < max_iterations

\* the loop condition of line 428
ExportContinues(size, it) ==
    size > target_size_kb * KB /\ it < max_iterations

\* the quality step clamped at 0 instead of at the floor
ExportNextQualityFloorZero(q) ==
    IF q - EXPORT_QUALITY_STEP > 0 THEN q - EXPORT_QUALITY_STEP ELSE 0

\* a quality that never steps down
ExportNextQualityStuck(q) == q

\* line 433
ExportNextQuality(q) ==
    IF q - EXPORT_QUALITY_STEP > EXPORT_QUALITY_FLOOR
    THEN q - EXPORT_QUALITY_STEP ELSE EXPORT_QUALITY_FLOOR

\* the resize without its clamp
ExportNextDimensionUnclamped(d) == (d * EXPORT_SCALE_PERCENT) \div 100

\* lines 436-437: max(100, int(d * 0.95)); int(d * 0.95) is the floor of
\* d*95/100 for every integer d up to 20000 in IEEE double arithmetic
ExportNextDimension(d) ==
    IF (d * EXPORT_SCALE_PERCENT) \div 100 > EXPORT_MIN_DIMENSION
    THEN (d * EXPORT_SCALE_PERCENT) \div 100 ELSE EXPORT_MIN_DIMENSION

\* one pass of the while loop (lines 428-446)
ExportIter ==
    /\ variant = "export"
    /\ pc = "loop"
    /\ ExportContinues(current_size, iteration)
    /\ iteration' = iteration + 1
    /\ quality' = ExportNextQuality(quality)
    /\ width' = ExportNextDimension(width)
    /\ height' = ExportNextDimension(height)
    /\ LET e == Encode(quality', width', height', imgMode)
       IN /\ log' = Append(log, e)
          /\ ret' = e               \* optimized_data = output.getvalue()
          /\ current_size' = e.size
    /\ UNCHANGED <<inputs, source, caller, imgMode, imgGen, pc, result>>

\* the loop condition is false: lines 448-453
ExportReturn ==
    /\ variant = "export"
    /\ pc = "loop"
    /\ ~ExportContinues(current_size, iteration)
    /\ result' = "returned"
    /\ pc' = "done"
    /\ UNCHANGED <<inputs, source, caller, work, log, ret>>

----------------------------------------------------------------------------
(* recursive_optimize_export(file_path) *)

\* lines 65-68: only RGBA is pasted on white
RecursiveFlatten(m) == IF m = "RGBA" THEN "RGB" ELSE m

\* a limit test that sends a file of exactly 500 KB into the loop
RecursiveWithinLimitStrict(size) == size < MAX_FILE_SIZE_KB * KB

\* line 56, on file_size_kb = getsize / 1024
RecursiveWithinLimit(size) == size <= MAX_FILE_SIZE_KB * KB

\* lines 44-72: the size is the size of the file as it is now, the image is
\* opened from it
RecursiveStart ==
    /\ variant = "recursive"
    /\ pc = "start"
    /\ IF ~fileExists
       THEN /\ result' = "returned_None"
            /\ ret' = NoValue
            /\ pc' = "done"
            /\ UNCHANGED work
       ELSE /\ current_size' = source.size
            /\ IF RecursiveWithinLimit(source.size)
               THEN /\ result' = "returned"
                    /\ ret' = source          \* the file at file_path, untouched
                    /\ pc' = "done"
                    /\ UNCHANGED <<imgMode, imgGen, width, height, quality,
                                   iteration>>
               ELSE /\ imgMode' = RecursiveFlatten(source.mode)
                    /\ imgGen' = source.gen
                    /\ quality' = QUALITY_START
                    /\ iteration' = 0
                    /\ pc' = "loop"
                    /\ UNCHANGED <<width, height, result, ret>>
    /\ UNCHANGED <<inputs, source, caller, log>>

\* the loop condition of line 75
RecursiveContinues(size, q) ==
    ~RecursiveWithinLimit(size) /\ q >= QUALITY_MIN

\* line 77
RecursiveNextQuality(q) == q - QUALITY_STEP

\* what img.save(file_path, ...) leaves at file_path (line 85): the encoding
\* when it succeeds; when the encoder raises, the file as it was or the file
\* already emptied for writing
SavedFile(e) == IF e.ok THEN {e} ELSE {source, TruncatedFile}

\* one pass of the while loop (lines 75-94); a failing save lands in the
\* except clause of lines 103-105
RecursiveIter ==
    /\ variant = "recursive"
    /\ pc = "loop"
    /\ RecursiveContinues(current_size, quality)
    /\ iteration' = iteration + 1
    /\ quality' = RecursiveNextQuality(quality)
    /\ LET e == Encode(quality', width, height, imgMode)
       IN /\ log' = Append(log, e)
          /\ source' \in SavedFile(e)
          /\ IF e.ok
             THEN /\ current_size' = e.size
                  /\ pc' = IF iteration' >= RECURSIVE_MAX_ITERATIONS
                           THEN "exit" ELSE "loop"
                  /\ UNCHANGED <<result, ret>>
             ELSE /\ result' = "returned_None"
                  /\ ret' = NoValue
                  /\ pc' = "done"
                  /\ UNCHANGED current_size
    /\ UNCHANGED <<inputs, caller, imgMode, imgGen, width, height>>

\* the loop is over: lines 96-101.  The caller gets file_path: the file as it
\* is now.
RecursiveReturn ==
    /\ variant = "recursive"
    /\ IF pc = "loop" THEN ~RecursiveContinues(current_size, quality)
                      ELSE pc = "exit"
    /\ result' = "returned"
    /\ ret' = source
    /\ pc' = "done"
    /\ UNCHANGED <<inputs, source, caller, work, log>>

----------------------------------------------------------------------------
InitWork ==
    /\ pc = "start"
    /\ source = InputBytes
    /\ imgMode = mode
    /\ imgGen = 0
    /\ width = srcW
    /\ height = srcH
    /\ quality = 0
    /\ iteration = 0
    /\ current_size = 0
    /\ log = <<>>
    /\ result = "pending"
    /\ ret = NoValue

InitImage(sizes) ==
    /\ mode \in Modes
    /\ \E s \in sizes : srcW = s[1] /\ srcH = s[2]
    /\ underQ \in QualityLevels \cup {0}
    /\ exactQ \in QualityLevels \cup {0}

\* optimize_for_retail never reads the pixel size: one source size stands for all
InitRetail ==
    /\ variant = "retail"
    /\ fileExists = TRUE
    /\ InitImage({<<640, 480>>})
    /\ smallUnder = FALSE
    /\ inputSize \in {SizeUnder, SizeOver}
    /\ target_size_kb = RETAIL_TARGET_KB
    /\ max_iterations = RETAIL_MAX_ITERATIONS

InitExport ==
    /\ variant = "export"
    /\ fileExists = TRUE
    /\ InitImage(SourceSizes)
    /\ smallUnder \in BOOLEAN
    /\ inputSize \in ContainerSizes
    /\ target_size_kb \in TargetKbChoices
    /\ max_iterations \in MaxIterationsChoices

\* recursive_optimize_export never reads the pixel size either
InitRecursive ==
    /\ variant = "recursive"
    /\ \/ /\ fileExists = TRUE
          /\ InitImage({<<640, 480>>})
          /\ inputSize \in ContainerSizes
       \/ /\ fileExists = FALSE
          /\ mode = "none"
          /\ srcW = 0
          /\ srcH = 0
          /\ underQ = 0
          /\ exactQ = 0
          /\ inputSize = 0
    /\ smallUnder = FALSE
    /\ target_size_kb = MAX_FILE_SIZE_KB
    /\ max_iterations = RECURSIVE_MAX_ITERATIONS

\* no second call
NoFirst == [quality |-> 0, width |-> 0, height |-> 0, size |-> 0]
NoOther == [pc |-> "off", imgMode |-> "none", imgGen |-> 0, quality |-> 0,
            iteration |-> 0, current_size |-> 0, result |-> "pending",
            ret |-> NoValue]

NoFallback == [pc |-> "off", k |-> 0, imgMode |-> "none", imgGen |-> 0,
               result |-> "pending", ret |-> "none"]

\* a call of one of the three optimizers on its own: the file is named .jpg,
\* no WebP file is written
InitDirect ==
    /\ ext = ".jpg"
    /\ webpUnderQ = 0
    /\ fb = NoFallback
    /\ webp = NoValue

InitCaller ==
    /\ callNo = 1
    /\ first = NoFirst
    /\ other = NoOther
    /\ InitDirect

Init ==
    /\ InitRetail \/ InitExport \/ InitRecursive
    /\ InitWork
    /\ InitCaller
    /\ drift = 0

Next ==
    \/ RetailStart
    \/ RetailIter
    \/ ExportStart
    \/ ExportIter
    \/ ExportReturn
    \/ RecursiveStart
    \/ RecursiveIter
    \/ RecursiveReturn

Spec == Init /\ [][Next]_vars

\* Each function is a sequential loop on one thread: a step that can be taken
\* is taken.
FairSpec == Spec /\ WF_vars(Next)

----------------------------------------------------------------------------
(* The same call made twice *)

\* the bytes a re-encode of an already encoded image may differ by
DriftChoices == {0, 1}

\* the caller repeats a call that returned over the budget, with the same
\* arguments: the same image object, the same image_data, the same file_path.
\* The locals of the new call are fresh; the file at file_path is what the
\* first call left there.
CallAgain ==
    /\ callNo = 1
    /\ pc = "done"
    /\ result = "returned"
    /\ ret.size >= target_size_kb * KB
    /\ callNo' = 2
    /\ first' = [quality |-> quality, width |-> width, height |-> height,
                 size |-> ret.size]
    /\ pc' = "start"
    /\ imgMode' = mode
    /\ imgGen' = 0
    /\ width' = srcW
    /\ height' = srcH
    /\ quality' = 0
    /\ iteration' = 0
    /\ current_size' = 0
    /\ log' = <<>>
    /\ result' = "pending"
    /\ ret' = NoValue
    /\ UNCHANGED <<inputs, source, other, fb, webp>>

InitRepeat ==
    /\ InitRetail \/ InitExport \/ InitRecursive
    /\ InitWork
    /\ InitCaller
    /\ drift \in (IF variant = "recursive" THEN DriftChoices ELSE {0})

NextRepeat == Next \/ CallAgain

RepeatSpec == InitRepeat /\ [][NextRepeat]_vars

----------------------------------------------------------------------------
(* Two calls of recursive_optimize_export(file_path) at the same time, on   *)
(* the same file_path.  The second call runs the same code on its own       *)
(* locals, the record other; the file at file_path is the one file both     *)
(* read and write.  One step is one pass of the loop, as above.             *)

\* lines 44-72 in the second call
OtherStart ==
    /\ other.pc = "start"
    /\ other' =
         IF ~fileExists
         THEN [other EXCEPT !.pc = "done", !.result = "returned_None"]
         ELSE IF RecursiveWithinLimit(source.size)
         THEN [other EXCEPT !.current_size = source.size,
                            !.pc = "done",
                            !.result = "returned",
                            !.ret = source]
         ELSE [other EXCEPT !.current_size = source.size,
                            !.imgMode = RecursiveFlatten(source.mode),
                            !.imgGen = source.gen,
                            !.quality = QUALITY_START,
                            !.iteration = 0,
                            !.pc = "loop"]
    /\ UNCHANGED <<inputs, source, callNo, first, fb, webp, pc, work, log, result,
                   ret>>

\* lines 75-94 and 103-105 in the second call
OtherIter ==
    /\ other.pc = "loop"
    /\ RecursiveContinues(other.current_size, other.quality)
    /\ LET q2 == RecursiveNextQuality(other.quality)
           it == other.iteration + 1
           e == EncodeGen(q2, width, height, other.imgMode, other.imgGen)
       IN /\ source' \in SavedFile(e)
          /\ other' =
               IF e.ok
               THEN [other EXCEPT !.quality = q2,
                                  !.iteration = it,
                                  !.current_size = e.size,
                                  !.pc = IF it >= RECURSIVE_MAX_ITERATIONS
                                         THEN "exit" ELSE "loop"]
               ELSE [other EXCEPT !.quality = q2,
                                  !.iteration = it,
                                  !.pc = "done",
                                  !.result = "returned_None"]
    /\ UNCHANGED <<inputs, callNo, first, fb, webp, pc, work, log, result, ret>>

\* lines 96-101 in the second call
OtherReturn ==
    /\ IF other.pc = "loop"
       THEN ~RecursiveContinues(other.current_size, other.quality)
       ELSE other.pc = "exit"
    /\ other' = [other EXCEPT !.pc = "done", !.result = "returned",
                              !.ret = source]
    /\ UNCHANGED <<inputs, source, callNo, first, fb, webp, pc, work, log, result,
                   ret>>

InitConc ==
    /\ InitRecursive
    /\ InitWork
    /\ callNo = 1
    /\ first = NoFirst
    /\ other = [NoOther EXCEPT !.pc = "start"]
    /\ InitDirect
    /\ drift = 0

NextConc ==
    \/ RecursiveStart
    \/ RecursiveIter
    \/ RecursiveReturn
    \/ OtherStart
    \/ OtherIter
    \/ OtherReturn

ConcSpec == InitConc /\ [][NextConc]_vars

----------------------------------------------------------------------------
(* optimize_with_format_fallback(file_path) *)

\* the qualities of the WebP attempts: line 144, then the list of line 154
WEBP_QUALITIES == <<80, 70, 60, 50, 40>>

\* the names explored: lower case, upper case, and not a JPEG name
Extensions == {".jpg", ".JPG", ".png"}

\* the WebP encodings of the image are within the limit at no quality, at
\* quality 40 only, or at every quality
WebpUnderChoices == {0, 40, 80}

\* line 126: file_path.lower().endswith((".jpg", ".jpeg"))
IsJpegName(x) == x \in {".jpg", ".JPG"}

\* line 143: file_path.replace(".jpg", ".webp").replace(".jpeg", ".webp").
\* str.replace matches case: a name that holds no lower-case ".jpg" or
\* ".jpeg" comes back unchanged, and webp_path is file_path.
WebpPath(x) == IF x = ".jpg" THEN "webp_path" ELSE "file_path"

\* lines 132, 147, 158
FallbackWithinLimit(size) == size <= MAX_FILE_SIZE_KB * KB

\* lines 138-141: only RGBA is pasted on white
FallbackFlatten(m) == IF m = "RGBA" THEN "RGB" ELSE m

\* img.save(webp_path, format="WEBP", quality=q): the WebP writer converts
\* every mode it does not write itself, so the save succeeds
WebpEncode(q, w, h, m, g) ==
    [q |-> q, w |-> w, h |-> h, mode |-> m, ok |-> TRUE,
     size |-> IF q <= webpUnderQ THEN SizeUnder ELSE SizeOver,
     gen |-> g + 1]

\* an except clause that lets the exception out
FallbackExceptRaises == "raised"

\* the except clause of lines 169-171
FallbackExceptOutcome == "returned"

\* lines 118-128: the existence test, and the choice of the JPEG step
FallbackStart ==
    /\ fb.pc = "start"
    /\ fb' = IF ~fileExists
             THEN [fb EXCEPT !.pc = "done", !.result = "returned_None"]
             ELSE IF IsJpegName(ext)
             THEN [fb EXCEPT !.pc = "jpeg"]
             ELSE [fb EXCEPT !.pc = "webp"]
    /\ UNCHANGED <<inputs, source, callNo, first, other, webp, pc, work, log,
                   result, ret>>

\* line 128: the nested call of recursive_optimize_export(file_path)
FallbackJpeg ==
    /\ fb.pc = "jpeg"
    /\ \/ RecursiveStart
       \/ RecursiveIter
       \/ RecursiveReturn

\* lines 130-133: the nested call is over
FallbackAfterJpeg ==
    /\ fb.pc = "jpeg"
    /\ pc = "done"
    /\ fb' = IF result = "returned" /\ FallbackWithinLimit(source.size)
             THEN [fb EXCEPT !.pc = "done", !.result = "returned",
                             !.ret = "file_path"]
             ELSE [fb EXCEPT !.pc = "webp"]
    /\ UNCHANGED <<inputs, source, callNo, first, other, webp, pc, work, log,
                   result, ret>>

\* lines 137-143: Image.open(file_path) on the file as it is now; a file that
\* holds no image makes it raise, into the except clause of lines 169-171
FallbackOpen ==
    /\ fb.pc = "webp"
    /\ fb' = IF source.ok
             THEN [fb EXCEPT !.pc = "save", !.k = 1,
                             !.imgMode = FallbackFlatten(source.mode),
                             !.imgGen = source.gen]
             ELSE [fb EXCEPT !.pc = "done",
                             !.result = FallbackExceptOutcome,
                             !.ret = IF FallbackExceptOutcome = "returned"
                                     THEN "file_path" ELSE "none"]
    /\ UNCHANGED <<inputs, source, callNo, first, other, webp, pc, work, log,
                   result, ret>>

\* one WebP attempt: lines 144-149 for the first, one pass of the loop of
\* lines 154-164 for the others, and line 167 after the last.  The save
\* writes the file webp_path names, which can be file_path itself.
FallbackSave ==
    /\ fb.pc = "save"
    /\ LET e == WebpEncode(WEBP_QUALITIES[fb.k], width, height, fb.imgMode,
                           fb.imgGen)
       IN /\ IF WebpPath(ext) = "file_path"
             THEN source' = e /\ UNCHANGED webp
             ELSE webp' = e /\ UNCHANGED source
          /\ fb' = IF FallbackWithinLimit(e.size)
                   THEN [fb EXCEPT !.pc = "done", !.result = "returned",
                                   !.ret = WebpPath(ext)]
                   ELSE IF fb.k = Len(WEBP_QUALITIES)
                   THEN [fb EXCEPT !.pc = "done", !.result = "returned",
                                   !.ret = "file_path"]
                   ELSE [fb EXCEPT !.k = fb.k + 1]
    /\ UNCHANGED <<inputs, callNo, first, other, pc, work, log, result, ret>>

InitFallback ==
    /\ InitRecursive
    /\ InitWork
    /\ callNo = 1
    /\ first = NoFirst
    /\ other = NoOther
    /\ drift = 0
    /\ ext \in Extensions
    /\ webpUnderQ \in WebpUnderChoices
    /\ fb = [NoFallback EXCEPT !.pc = "start"]
    /\ webp = NoValue

NextFallback ==
    \/ FallbackStart
    \/ FallbackJpeg
    \/ FallbackAfterJpeg
    \/ FallbackOpen
    \/ FallbackSave

FallbackSpec == InitFallback /\ [][NextFallback]_vars

----------------------------------------------------------------------------
(* Vocabulary of the properties *)

Done == pc = "done"

Last(s) == s[Len(s)]

\* the byte budget of the call
TargetBytes == target_size_kb * KB

\* an encode attempt that produced bytes strictly under the budget
MeetsBudget(e) == e.ok /\ e.size < TargetBytes

\* the cap on encode attempts: 20, the max_iterations argument, 20
EncodeCap ==
    CASE variant = "retail" -> RETAIL_MAX_ITERATIONS
      [] variant = "export" -> max_iterations
      [] variant = "recursive" -> RECURSIVE_MAX_ITERATIONS

\* the policy satisfies the preconditions of the contract
ValidPolicy == target_size_kb > 0 /\ max_iterations > 0

\* no codec call of the run has failed
NoCodecFailure == \A i \in 1..Len(log) : log[i].ok

----------------------------------------------------------------------------
\* C1: every call terminates, and never makes more encode attempts than its
\* cap (20 for optimize_for_retail, max_iterations for optimize_export, 20 for
\* recursive_optimize_export).
C1_TerminatesWithinCap == <>Done /\ [](Len(log) <= EncodeCap)

\* a call that used its whole cap: optimize_export at the largest argument
C1_Witness ==
    /\ Done
    /\ variant = "export"
    /\ max_iterations = MaxIterationsArg
    /\ Len(log) = max_iterations

----------------------------------------------------------------------------
(* The settings a step-down from the start values to the floors passes *)

\* optimize_for_retail: quality 95, 90, ..., 10 at the source size
RetailRange ==
    {[q |-> q, w |-> srcW, h |-> srcH] :
        q \in {x \in QualityLevels :
                 x >= RETAIL_QUALITY_FLOOR /\ x <= RETAIL_QUALITY_START}}

\* optimize_export: from (85, source size), quality down by 5 to 10 and both
\* sides down by 5% to 100, until nothing changes any more
RECURSIVE ExportRangeFrom(_, _, _)
ExportRangeFrom(q, w, h) ==
    LET q2 == ExportNextQuality(q)
        w2 == ExportNextDimension(w)
        h2 == ExportNextDimension(h)
    IN {[q |-> q, w |-> w, h |-> h]} \cup
       (IF q2 = q /\ w2 = w /\ h2 = h THEN {} ELSE ExportRangeFrom(q2, w2, h2))

ExportRange == ExportRangeFrom(EXPORT_QUALITY_START, srcW, srcH)

\* the settings of the step-down of this call
Range == IF variant = "retail" THEN RetailRange ELSE ExportRange

\* some setting of the range encodes to fewer than targetBytes bytes
BudgetReachable == \E s \in Range : Size(s.q, s.w, s.h) < TargetBytes

\* no setting of the range encodes to exactly targetBytes bytes
NoExactEncoding == \A s \in Range : Size(s.q, s.w, s.h) # TargetBytes

\* C2: for optimize_for_retail and for optimize_export with its default
\* max_iterations, whenever some setting between the start values and the
\* floors encodes under targetBytes, the call returns bytes under targetBytes.
\* Stated for the calls whose input container is over the budget and whose
\* image never encodes to exactly targetBytes, so that the boundary cases of
\* C6 and C8 play no part in it.
C2_BudgetMetWhenReachable ==
    (/\ Done
     /\ variant \in {"retail", "export"}
     /\ variant = "export" => max_iterations = EXPORT_DEFAULT_MAX_ITERATIONS
     /\ inputSize > TargetBytes
     /\ NoExactEncoding
     /\ BudgetReachable)
    => (result = "returned" /\ ret.size < TargetBytes)

----------------------------------------------------------------------------
\* C3: first success wins.  No encode follows an encode that met the budget,
\* quality and pixel size stay what that encode used, and the call returns
\* that encode: the earliest attempt of the step-down that met the budget,
\* every attempt at a higher quality having missed it.
C3_FirstSuccessWins ==
    /\ \A i \in 1..(Len(log) - 1) : ~MeetsBudget(log[i])
    /\ (log # <<>> /\ MeetsBudget(Last(log))) =>
          /\ quality = Last(log).q
          /\ width = Last(log).w
          /\ height = Last(log).h
          /\ Done => (result = "returned" /\ ret = Last(log))
          /\ \A i \in 1..(Len(log) - 1) : log[i].q >= Last(log).q

\* a call that met the budget at its third attempt
C3_Witness ==
    /\ Done
    /\ Len(log) = 3
    /\ MeetsBudget(Last(log))
    /\ ret = Last(log)

----------------------------------------------------------------------------
----------------------------------------------------------------------------
\* the quality-only variants and their presets
QualityOnly == variant \in {"retail", "recursive"}
StartQuality == IF variant = "retail" THEN RETAIL_QUALITY_START ELSE QUALITY_START
MinQuality == IF variant = "retail" THEN RETAIL_QUALITY_FLOOR ELSE QUALITY_MIN

\* C5: in quality-only mode every encode is made at a quality between
\* minQuality and startQuality, and a call whose encodes all stay over the
\* budget ends with its last encode at exactly minQuality (65 for
\* recursive_optimize_export, 10 for optimize_for_retail).
C5_QualityWithinFloor ==
    QualityOnly =>
      /\ \A i \in 1..Len(log) :
            log[i].q >= MinQuality /\ log[i].q <= StartQuality
      /\ (/\ Done
          /\ result = "returned"
          /\ log # <<>>
          /\ \A i \in 1..Len(log) : log[i].size > TargetBytes)
         => Last(log).q = MinQuality

----------------------------------------------------------------------------
\* C6: every call of an existing image makes at least one encode before it
\* returns.
C6_AlwaysEncodesOnce ==
    (Done /\ fileExists /\ ValidPolicy) => Len(log) >= 1

----------------------------------------------------------------------------
\* C7: when no bytes under the budget were produced, optimize_for_retail and
\* optimize_export return exactly the output of the last encode performed.
C7_ReturnsLastEncode ==
    (/\ Done
     /\ variant \in {"retail", "export"}
     /\ ValidPolicy
     /\ result = "returned"
     /\ ~MeetsBudget(ret))
    => (log # <<>> /\ ret = Last(log))

----------------------------------------------------------------------------
\* the loop has used up its step-down: the quality floor or the iteration cap
StepDownExhausted ==
    CASE variant = "retail" ->
            quality < RETAIL_QUALITY_FLOOR \/ iteration >= RETAIL_MAX_ITERATIONS
      [] variant = "export" -> iteration >= max_iterations
      [] variant = "recursive" ->
            quality < QUALITY_MIN \/ iteration >= RECURSIVE_MAX_ITERATIONS

\* C8: the budget test is strict.  An encode of exactly targetBytes bytes does
\* not end the loop: a call returns after such an encode only when the
\* step-down is exhausted.
C8_StrictBudgetTest ==
    (/\ Done
     /\ result = "returned"
     /\ log # <<>>
     /\ Last(log).ok
     /\ Last(log).size = TargetBytes)
    => StepDownExhausted

----------------------------------------------------------------------------
\* C9: in optimize_export, after every iteration both sides of the working
\* image are at least 100 pixels, and so is every image handed to the encoder.
C9_DimensionsAtLeastMin ==
    variant = "export" =>
      /\ iteration >= 1 =>
            (width >= EXPORT_MIN_DIMENSION /\ height >= EXPORT_MIN_DIMENSION)
      /\ \A i \in 1..Len(log) :
            log[i].w >= EXPORT_MIN_DIMENSION /\ log[i].h >= EXPORT_MIN_DIMENSION

\* a 120 x 150 source shrunk until the clamp holds it at 100 x 100
C9_Witness ==
    /\ variant = "export"
    /\ srcW = 120
    /\ iteration = MaxIterationsArg
    /\ width = EXPORT_MIN_DIMENSION
    /\ height = EXPORT_MIN_DIMENSION

----------------------------------------------------------------------------
\* C10: an input image with an alpha channel reaches the encoder only as an
\* opaque RGB image, in all three functions.
C10_NoAlphaAtEncode ==
    HasAlpha(mode) =>
      \A i \in 1..Len(log) : ~HasAlpha(log[i].mode) /\ log[i].mode = "RGB"
----------------------------------------------------------------------------
\* C11: a codec failure (decode, resize or encode) ends the call at once with
\* an error surfaced to the caller: the failed attempt is the last one, and
\* the call ends raising, never returning None or a path in place of the
\* error.
C11_CodecFailureRaises ==
    /\ \A i \in 1..Len(log) : ~log[i].ok => i = Len(log)
    /\ ~NoCodecFailure => (Done /\ result = "raised")

----------------------------------------------------------------------------
\* C12: no call modifies the caller's source image: the file or the byte
\* buffer it was loaded from is, at every moment, what the caller passed in.
C12_SourceUntouched == source = InputBytes

----------------------------------------------------------------------------
\* C13: an invalid policy is rejected: optimize_export called with
\* target_size_kb <= 0 or max_iterations <= 0 fails with an error, makes no
\* encode and returns no bytes.
C13_InvalidPolicyRejected ==
    (variant = "export" /\ ~ValidPolicy) =>
      /\ log = <<>>
      /\ Done => result = "raised"

----------------------------------------------------------------------------
\* C14: every buffer optimize_for_retail returns is strictly smaller than
\* 500 KB; a call that cannot get there by quality 10 raises.
C14_RetailReturnsUnderBudget ==
    (Done /\ variant = "retail") =>
      \/ result = "returned" /\ ret.ok /\ ret.size < RETAIL_TARGET_KB * KB
      \/ result = "raised"

----------------------------------------------------------------------------
\* C15: whenever optimize_export returns normally its bytes are under the
\* target size, and it raises when the target is not reached within
\* max_iterations.  Stated for the calls with a valid policy whose input is
\* over the target and whose image never encodes to exactly the target, so
\* that the cases of C6, C8 and C13 play no part in it.
C15_ExportReturnsUnderTarget ==
    (/\ Done
     /\ variant = "export"
     /\ ValidPolicy
     /\ inputSize > TargetBytes
     /\ NoExactEncoding) =>
      IF ret.size < TargetBytes THEN result = "returned" ELSE result = "raised"

----------------------------------------------------------------------------
\* C18: the first encode of every call is made at startQuality (95 for
\* optimize_for_retail and recursive_optimize_export, 85 for optimize_export)
\* on the image at its original dimensions.
C18_FirstEncodeAtStart ==
    log # <<>> =>
      /\ log[1].q = (IF variant = "export" THEN EXPORT_QUALITY_START
                                           ELSE StartQuality)
      /\ log[1].w = srcW
      /\ log[1].h = srcH

----------------------------------------------------------------------------
\* C19: in optimize_export the quality of each encode is the quality of the
\* encode before it minus 5, or 10 when that would go under 10; no encode is
\* made at a quality under 10, whatever max_iterations is.
C19_ExportQualityFloor ==
    variant = "export" =>
      /\ \A i \in 1..Len(log) : log[i].q >= EXPORT_QUALITY_FLOOR
      /\ \A i \in 1..(Len(log) - 1) :
            log[i + 1].q =
               IF log[i].q - EXPORT_QUALITY_STEP >= EXPORT_QUALITY_FLOOR
               THEN log[i].q - EXPORT_QUALITY_STEP
               ELSE EXPORT_QUALITY_FLOOR

\* a call with more iterations than steps to the floor: its last two encodes
\* are both at quality 10
C19_Witness ==
    /\ variant = "export"
    /\ Len(log) = MaxIterationsArg
    /\ log[Len(log) - 1].q = EXPORT_QUALITY_FLOOR
    /\ Last(log).q = EXPORT_QUALITY_FLOOR

----------------------------------------------------------------------------
\* C20: in optimize_export no iteration makes the working image wider or
\* higher than it was before the iteration, also when a side of the source is
\* shorter than 100.
C20_DimensionsNeverGrow ==
    [][variant = "export" => (width' <= width /\ height' <= height)]_vars
----------------------------------------------------------------------------
\* C16: determinism of the failure path.  A second call with the same image
\* and policy as a first call that ended over the budget ends with the same
\* final quality, the same final width and height and the same encoded size;
\* also the second call of recursive_optimize_export on the same file_path.
\* Stated for first calls that ended strictly over the budget, so that the
\* boundary case of C8 plays no part in it.
C16_RepeatedCallSameEnd ==
    (callNo = 2 /\ Done /\ first.size > TargetBytes) =>
      /\ result = "returned"
      /\ quality = first.quality
      /\ width = first.width
      /\ height = first.height
      /\ ret.size = first.size
----------------------------------------------------------------------------
(* What recursive_optimize_export returns for the input file when no other *)
(* call runs: the loop of lines 75-94 unrolled from (size, quality,        *)
(* iteration), file being what file_path holds.                            *)
RECURSIVE AloneFrom(_, _, _, _)
AloneFrom(size, q, it, file) ==
    IF RecursiveContinues(size, q) /\ it < RECURSIVE_MAX_ITERATIONS
    THEN LET e == EncodeGen(RecursiveNextQuality(q), srcW, srcH,
                            RecursiveFlatten(mode), 0)
         IN IF e.ok THEN AloneFrom(e.size, e.q, it + 1, e)
                    ELSE [result |-> "returned_None", ret |-> NoValue]
    ELSE [result |-> "returned", ret |-> file]

Alone ==
    IF ~fileExists THEN [result |-> "returned_None", ret |-> NoValue]
    ELSE IF RecursiveWithinLimit(inputSize)
         THEN [result |-> "returned", ret |-> InputBytes]
         ELSE AloneFrom(inputSize, QUALITY_START, 0, InputBytes)

\* the outcome (r, f) of a call is the outcome of the call run alone: the same
\* kind of result, and a file of the same quality setting and size
SameAsAlone(r, f) ==
    /\ r = Alone.result
    /\ f.q = Alone.ret.q
    /\ f.size = Alone.ret.size

\* C17: concurrent calls share no mutable state.  In every interleaving of
\* two simultaneous calls of recursive_optimize_export on the same file_path,
\* each call returns what it would return when run alone.  Stated for the
\* files the encoder accepts, so that the failure of C11 plays no part in it.
C17_ConcurrentSameAsAlone ==
    (fileExists /\ JpegWritable(RecursiveFlatten(mode))) =>
      /\ Done => SameAsAlone(result, ret)
      /\ other.pc = "done" => SameAsAlone(other.result, other.ret)

\* a call of recursive_optimize_export that runs alone returns Alone
AloneIsTheSingleCall ==
    (variant = "recursive" /\ Done) => SameAsAlone(result, ret)
----------------------------------------------------------------------------
\* C21: in optimize_export a resize that clamps neither side keeps the aspect
\* ratio exactly: when an iteration takes the working image from w x h to
\* w2 x h2 with w2 > 100 and h2 > 100, then w2 * h = h2 * w.
C21_AspectRatioExact ==
    [][(/\ variant = "export"
        /\ iteration' = iteration + 1
        /\ width' > EXPORT_MIN_DIMENSION
        /\ height' > EXPORT_MIN_DIMENSION)
       => width' * height = height' * width]_vars
----------------------------------------------------------------------------
\* the quality under which the loop of the variant makes no further encode
LoopFloor ==
    CASE variant = "retail" -> RETAIL_QUALITY_FLOOR
      [] variant = "export" -> EXPORT_QUALITY_FLOOR
      [] variant = "recursive" -> QUALITY_MIN

\* C22: no encode is ever made at a quality under 5 (so never at a
\* non-positive one), in any of the three functions; once the step-down has
\* taken the quality under the floor of the loop, no further encode is made.
C22_NoEncodeBelowAbsoluteFloor ==
    /\ [](\A i \in 1..Len(log) : log[i].q >= 5 /\ log[i].q > 0)
    /\ [][quality < LoopFloor => log' = log]_vars

\* optimize_for_retail after its encode at quality 10: the step-down has
\* reached 5 and the call has ended without an encode at 5
C22_Witness ==
    /\ variant = "retail"
    /\ quality = RETAIL_QUALITY_FLOOR - RETAIL_QUALITY_STEP
    /\ Done
    /\ Last(log).q = RETAIL_QUALITY_FLOOR
    /\ Len(log) = iteration

----------------------------------------------------------------------------
\* the encodes of a full step-down of optimize_for_retail: 95, 90, ..., 10
RetailStepDownLength ==
    (RETAIL_QUALITY_START - RETAIL_QUALITY_FLOOR) \div RETAIL_QUALITY_STEP + 1

----------------------------------------------------------------------------
\* the target of the call is unreachable: the input and every setting of the
\* step-down of optimize_export are over it
TargetUnreachable ==
    /\ inputSize > TargetBytes
    /\ \A s \in ExportRange : Size(s.q, s.w, s.h) > TargetBytes

----------------------------------------------------------------------------
----------------------------------------------------------------------------
\* the number of iterations after which the step-down of optimize_export
\* changes nothing any more
FixedPointSteps == Cardinality(ExportRange) - 1

\* C28: in optimize_export the control state (quality, width, height) reaches
\* (10, 100, 100) and every later iteration leaves it there, for every source
\* size: from iteration FixedPointSteps on, the control state is the fixed
\* point.
C28_ExportFixedPoint ==
    (variant = "export" /\ iteration >= FixedPointSteps) =>
      /\ quality = EXPORT_QUALITY_FLOOR
      /\ width = EXPORT_MIN_DIMENSION
      /\ height = EXPORT_MIN_DIMENSION

\* the 90 x 300 source, at the fixed point for two iterations in a row
C28_Witness ==
    /\ variant = "export"
    /\ srcW = ShortSide
    /\ iteration > FixedPointSteps
    /\ Len(log) >= 2
    /\ log[Len(log) - 1].q = EXPORT_QUALITY_FLOOR
    /\ log[Len(log) - 1].w = EXPORT_MIN_DIMENSION
    /\ log[Len(log) - 1].h = EXPORT_MIN_DIMENSION
    /\ Last(log) = log[Len(log) - 1]
----------------------------------------------------------------------------
(* optimize_with_format_fallback *)

FallbackDone == fb.pc = "done"

\* C25: optimize_with_format_fallback attempts the WebP conversion only when
\* the file is still over 500 KB after the JPEG step: the conversion never
\* starts on a file within 500 KB, and a file that was within 500 KB at the
\* call is neither converted nor rewritten, whatever its extension.
C25_WebpOnlyWhenOverLimit ==
    /\ fb.pc \in {"webp", "save"} =>
          (fb.k = 0 => ~FallbackWithinLimit(source.size))
    /\ (fileExists /\ FallbackWithinLimit(inputSize)) =>
          (source = InputBytes /\ webp = NoValue /\ fb.k = 0)

----------------------------------------------------------------------------
\* every attempt of the call stayed over 500 KB: the input, the encodes of the
\* JPEG step and the five WebP attempts
AllAttemptsOverLimit ==
    /\ ~FallbackWithinLimit(inputSize)
    /\ \A i \in 1..Len(log) : log[i].ok /\ ~FallbackWithinLimit(log[i].size)
    /\ fb.k = Len(WEBP_QUALITIES)
    /\ webpUnderQ < WEBP_QUALITIES[Len(WEBP_QUALITIES)]

\* C26: when every JPEG and WebP attempt stays over 500 KB,
\* optimize_with_format_fallback returns the original file_path, and the file
\* at that path still holds the original image.  Stated for a file named
\* .jpg, whose webp_path is another path.
C26_ReturnsTheOriginal ==
    (FallbackDone /\ fileExists /\ ext = ".jpg" /\ AllAttemptsOverLimit) =>
      /\ fb.result = "returned"
      /\ fb.ret = "file_path"
      /\ source = InputBytes

----------------------------------------------------------------------------
\* C29: the path optimize_with_format_fallback returns names the only output
\* of the call: whenever it returns the original file_path, no separate .webp
\* file written by the call remains.  Stated for the calls in which no save
\* failed, so that the failure of C11 plays no part in it.
C29_NoWebpLeftBehind ==
    (/\ FallbackDone
     /\ fb.result = "returned"
     /\ fb.ret = "file_path"
     /\ NoCodecFailure) =>
      webp = NoValue

----------------------------------------------------------------------------
\* C30: optimize_with_format_fallback returns None only when the file does
\* not exist at the call; for an existing file it returns a path (file_path
\* or webp_path) and never raises, whatever the JPEG step returned and
\* whatever failed in the codec.
C30_FallbackAlwaysReturnsPath ==
    /\ fb.result # "raised"
    /\ FallbackDone =>
         IF fileExists
         THEN fb.result = "returned" /\ fb.ret \in {"file_path", "webp_path"}
         ELSE fb.result = "returned_None" /\ fb.ret = "none"

\* the JPEG step failed and returned None, the file it left holds no image,
\* Image.open raised, and the call still returned file_path
C30_Witness ==
    /\ FallbackDone
    /\ fileExists
    /\ result = "returned_None"
    /\ ~NoCodecFailure
    /\ ~source.ok
    /\ fb.k = 0
    /\ fb.ret = "file_path"
====
